---- MODULE Spec2Model ----
(***************************************************************************)
(* Model of movie_quiz.py: the anagram generator (_scramble_word), the     *)
(* per-movie anagram pool (Movie.random_anagram) and the interactive quiz  *)
(* loop (MovieQuiz.start).                                                  *)
(*                                                                         *)
(* A Python str is modelled as a sequence of one-character strings, so     *)
(* that strip(), lower(), upper(), split() and join() are computed         *)
(* character by character as Python computes them.                         *)
(***************************************************************************)
EXTENDS Integers, Sequences, FiniteSets, TLC

VARIABLES
    \* ---- MovieQuiz._scramble_word (one call) ----
    sw_word,        \* the argument `word`
    sw_pc,          \* "idle" | "while" | "returned"
    sw_i,           \* the local counter `i`
    sw_anagram,     \* the local `anagram` (last sample), NoValue before the first
    sw_ret,         \* the returned string, NoValue until the call returns
    sw_samples,     \* history: number of random.sample calls made by this call
    \* ---- MovieQuiz / Movie objects ----
    questions,      \* self._questions: sequence of [title, anagrams]
    max_guesses,    \* self._max_guesses
    correct_guess,  \* Movie.correct_guess, per question index
    spent,          \* Movie._spent, per question index (a list)
    \* ---- MovieQuiz.start locals and position ----
    pc,             \* position in start()
    i,              \* index of the outer for loop (1-based)
    x,              \* index of the inner for loop (0-based, as range())
    result,         \* the local `result` (GuessResult)
    answer,         \* the local `answer` (what get_input returned)
    \* ---- what the user typed and what was printed ----
    typed,          \* history: the last line typed at a guess prompt of the current question
    shownAnagram,   \* the anagram printed last for the current question
    guesses,        \* history: guess lines read, per question index
    final,          \* history: `result` when the inner loop was left, per question index
    reveal,         \* printed reveal per question: "none" | "answer_was" | "no_more_attempts"
    revealText,     \* the title as printed in the reveal, per question index
    acks,           \* history: "press enter" lines read, per question index
    summary,        \* printed summary: NoValue or [msg, correct, incorrect]
    farewell,       \* the farewell of get_input's except branch has been printed
    exitStatus,     \* NoValue while running, then the exit status of the process
    \* ---- MovieQuiz.__init__: _load_movie_titles and _generate_quiz ----
    build_pc,       \* position in __init__
    file,           \* movies.txt: [exists, lines]
    movie_titles,   \* self._movie_titles, NoValue before the load
    movie,          \* the local `movie` of _generate_quiz, NoValue outside the loop
    rounds          \* passes of `for _ in range(50)` made for `movie`

vars == << sw_word, sw_pc, sw_i, sw_anagram, sw_ret, sw_samples,
           questions, max_guesses, correct_guess, spent,
           pc, i, x, result, answer,
           typed, shownAnagram, guesses, final, reveal, revealText, acks, summary,
           farewell, exitStatus,
           build_pc, file, movie_titles, movie, rounds >>

scrambleVars == << sw_word, sw_pc, sw_i, sw_anagram, sw_ret, sw_samples >>

quizVars == << questions, max_guesses, correct_guess, spent,
               pc, i, x, result, answer,
               typed, shownAnagram, guesses, final, reveal, revealText, acks, summary,
               farewell, exitStatus >>

exitVars == << farewell, exitStatus >>

buildVars == << build_pc, file, movie_titles, movie, rounds >>

NoValue == "<none>"

(***************************************************************************)
(* Python str operations                                                   *)
(***************************************************************************)
LowerLetters ==
    << "a","b","c","d","e","f","g","h","i","j","k","l","m",
       "n","o","p","q","r","s","t","u","v","w","x","y","z" >>

UpperLetters ==
    << "A","B","C","D","E","F","G","H","I","J","K","L","M",
       "N","O","P","Q","R","S","T","U","V","W","X","Y","Z" >>

\* the whitespace characters of the modelled alphabet
Whitespace == { " ", "\t" }

lower_char(c) ==
    IF \E k \in 1..Len(UpperLetters) : UpperLetters[k] = c
    THEN LowerLetters[CHOOSE k \in 1..Len(UpperLetters) : UpperLetters[k] = c]
    ELSE c

upper_char(c) ==
    IF \E k \in 1..Len(LowerLetters) : LowerLetters[k] = c
    THEN UpperLetters[CHOOSE k \in 1..Len(LowerLetters) : LowerLetters[k] = c]
    ELSE c

\* str.lower()
lower(s) == [k \in 1..Len(s) |-> lower_char(s[k])]

\* str.upper()
upper(s) == [k \in 1..Len(s) |-> upper_char(s[k])]

RECURSIVE lstrip(_)
lstrip(s) ==
    IF s # << >> /\ Head(s) \in Whitespace THEN lstrip(Tail(s)) ELSE s

RECURSIVE rstrip(_)
rstrip(s) ==
    IF s # << >> /\ s[Len(s)] \in Whitespace
    THEN rstrip(SubSeq(s, 1, Len(s) - 1))
    ELSE s

\* strip() that forgets the trailing whitespace
strip_leading_only(s) == lstrip(s)

\* str.strip()
strip(s) == rstrip(lstrip(s))

\* the first whitespace-delimited word of a string without leading whitespace
RECURSIVE first_word(_)
first_word(s) ==
    IF s = << >> \/ Head(s) \in Whitespace
    THEN << >>
    ELSE << Head(s) >> \o first_word(Tail(s))

\* str.split() with no argument: runs of whitespace separate, no empty words
RECURSIVE split(_)
split(s) ==
    LET t == lstrip(s) IN
    IF t = << >>
    THEN << >>
    ELSE LET w == first_word(t) IN
         << w >> \o split(SubSeq(t, Len(w) + 1, Len(t)))

\* ''.join(words): the separator is dropped
RECURSIVE join_nothing(_, _)
join_nothing(sep, words) ==
    IF words = << >> THEN << >>
    ELSE Head(words) \o join_nothing(sep, Tail(words))

\* sep.join(words)
RECURSIVE join(_, _)
join(sep, words) ==
    IF words = << >> THEN << >>
    ELSE IF Len(words) = 1 THEN Head(words)
    ELSE Head(words) \o sep \o join(sep, Tail(words))

(***************************************************************************)
(* random.sample(word, len(word)) joined: any rearrangement of the word    *)
(***************************************************************************)
Bijections(n) ==
    { p \in [1..n -> 1..n] : \A a, b \in 1..n : p[a] = p[b] => a = b }

Samples(word) ==
    { [k \in 1..Len(word) |-> word[p[k]]] : p \in Bijections(Len(word)) }

(***************************************************************************)
(* MovieQuiz._scramble_word                                                *)
(***************************************************************************)
\* the literal 10 of `while i < 10`
RetryBound == 10

\* the history counter sw_samples stops counting here
SampleCap == 12

\* the words a call is made with
ScrambleWords ==
    { << >>, << "a" >>, << "a", "a" >>, << "U", "p" >>, << "a", "b", "a" >>,
      << "n", "e", "x", "t" >>, << "p", "a", "s", "s" >> }

\* One evaluation of the while condition and, when it holds, one pass
\* through the loop body. The body never assigns `i`.
scramble_word_step ==
    /\ sw_pc = "while"
    /\ IF sw_i < RetryBound
       THEN \E a \in Samples(sw_word) :
              /\ sw_anagram' = a
              /\ sw_samples' = IF sw_samples < SampleCap
                               THEN sw_samples + 1 ELSE sw_samples
              /\ IF a # sw_word
                 THEN sw_ret' = a /\ sw_pc' = "returned"
                 ELSE sw_ret' = sw_ret /\ sw_pc' = "while"
       ELSE /\ sw_ret' = sw_word
            /\ sw_pc' = "returned"
            /\ UNCHANGED << sw_anagram, sw_samples >>
    /\ UNCHANGED << sw_word, sw_i >>
    /\ UNCHANGED quizVars
    /\ UNCHANGED buildVars

ScrambleIdle ==
    /\ sw_word = << >>
    /\ sw_pc = "idle"
    /\ sw_i = 0
    /\ sw_anagram = NoValue
    /\ sw_ret = NoValue
    /\ sw_samples = 0

QuizIdle ==
    /\ questions = << >>
    /\ max_guesses = 0
    /\ correct_guess = << >>
    /\ spent = << >>
    /\ pc = "idle"
    /\ i = 0
    /\ x = 0
    /\ result = "DEFAULT"
    /\ answer = NoValue
    /\ typed = NoValue
    /\ shownAnagram = NoValue
    /\ guesses = << >>
    /\ final = << >>
    /\ reveal = << >>
    /\ revealText = << >>
    /\ acks = << >>
    /\ summary = NoValue
    /\ farewell = FALSE
    /\ exitStatus = NoValue

BuildIdle ==
    /\ build_pc = "idle"
    /\ file = [exists |-> FALSE, lines |-> << >>]
    /\ movie_titles = NoValue
    /\ movie = NoValue
    /\ rounds = 0

\* a call _scramble_word(word): i = 0, about to test the while condition
InitScramble ==
    /\ sw_word \in ScrambleWords
    /\ sw_pc = "while"
    /\ sw_i = 0
    /\ sw_anagram = NoValue
    /\ sw_ret = NoValue
    /\ sw_samples = 0
    /\ QuizIdle
    /\ BuildIdle

NextScramble == scramble_word_step

SpecScramble == InitScramble /\ [][NextScramble]_vars

(***************************************************************************)
(* MovieQuiz._generate_quiz: what it can hand to start()                   *)
(***************************************************************************)
\* the literal 50 of `for _ in range(50)`
AnagramsPerTitle == 50

\* the strings a call _scramble_word(word) can return; empty when no
\* sample differs from the word, and then the call never returns
ScrambleResults(word) == { a \in Samples(word) : a # word }

\* [self._scramble_word(word) for word in title.split()], every outcome
RECURSIVE ScrambledWords(_)
ScrambledWords(words) ==
    IF words = << >>
    THEN { << >> }
    ELSE { << h >> \o t : h \in ScrambleResults(Head(words)),
                          t \in ScrambledWords(Tail(words)) }

\* every string one pass of the range(50) loop can append for a title
AnagramsOf(title) ==
    { upper(join(<< " " >>, ws)) : ws \in ScrambledWords(split(title)) }

RECURSIVE Pick(_, _)
Pick(S, k) ==
    IF k = 0 \/ S = {} THEN {}
    ELSE LET e == CHOOSE e \in S : TRUE IN { e } \cup Pick(S \ { e }, k - 1)

\* largest number of lines of a modelled movies.txt
MaxQuestions == 2

\* largest modelled value of the max_guesses argument (its default is 3)
MaxMaxGuesses == 3

\* largest number of distinct strings in a modelled anagram list
MaxDistinct == 2

\* titles the modelled movies.txt files are made of: a title with a single
\* scramble, a title with several scrambles, a blank line, a title that is
\* a reserved word in another letter case, a title that is a reserved
\* word, a title with trailing whitespace
TitleList ==
    << << "U", "p" >>,
       << "H", "e", "r" >>,
       << >>,
       << "N", "e", "x", "t" >>,
       << "p", "a", "s", "s" >>,
       << "U", "p", " " >> >>

\* f.read().splitlines() of the modelled files: the empty file, every
\* one-line file, and the first lines of TitleList up to MaxQuestions lines
TitleFiles ==
    { << TitleList[k] >> : k \in 1..Len(TitleList) }
    \cup { SubSeq(TitleList, 1, n) : n \in 0..MaxQuestions }

\* The anagram lists _generate_quiz can build for a title. Movie.anagrams
\* is a list of 50 strings that random_anagram reads only through `x in` /
\* `not in` tests, so it is kept as the set of its distinct members; the 50
\* independent draws can produce any non-empty set of at most 50 outcomes.
AnagramLists(title) ==
    LET all == AnagramsOf(title) IN
    { A \in { Pick(all, k) : k \in 1..MaxDistinct } :
        A # {} /\ Cardinality(A) <= AnagramsPerTitle }

\* the question lists _generate_quiz can return for a file (any order of
\* the lines can come out of random.shuffle, the order of the file too)
QuizzesOf(titles) ==
    { qs \in [1..Len(titles) -> UNION { { [title |-> titles[k], anagrams |-> A] :
                                            A \in AnagramLists(titles[k]) } :
                                        k \in 1..Len(titles) }] :
        \A k \in 1..Len(titles) : qs[k].title = titles[k] }

\* the lines the user types at a guess prompt
Responses ==
    { << "n", "e", "x", "t" >>,
      << " ", "N", "e", "x", "T", " " >>,
      << "p", "a", "s", "s" >>,
      << "P", "A", "S", "S", "\t" >>,
      << "h", "e", "r" >>,
      << " ", "U", "P", " " >>,
      << >>,
      << "x", "y" >> }

(***************************************************************************)
(* MovieQuiz.__init__: _load_movie_titles, _generate_quiz                  *)
(***************************************************************************)
\* the movies.txt files a quiz is built from: no file, an empty file, one
\* title, a two-word title with doubled and trailing whitespace, two
\* titles, a blank line before a title, a title with a one-letter word
BuildFiles ==
    { [exists |-> FALSE, lines |-> << >>],
      [exists |-> TRUE, lines |-> << >>],
      [exists |-> TRUE, lines |-> << << "U", "p" >> >>],
      [exists |-> TRUE, lines |-> << << "G", "o", " ", " ", "U", "p", " " >> >>],
      [exists |-> TRUE, lines |-> << << "U", "p" >>, << "H", "e", "r" >> >>],
      [exists |-> TRUE, lines |-> << << >>, << "U", "p" >> >>],
      [exists |-> TRUE, lines |-> << << "a", " ", "U", "p" >> >>] }

\* random.shuffle(questions): every order of the list
Shuffles(qs) ==
    { [k \in 1..Len(qs) |-> qs[p[k]]] : p \in Bijections(Len(qs)) }

\* _load_movie_titles: open() raises FileNotFoundError for a missing file,
\* else every line of the file is a title; then `questions = []`
load_movie_titles ==
    /\ build_pc = "load"
    /\ IF file.exists
       THEN /\ movie_titles' = file.lines
            /\ build_pc' = "for_title"
       ELSE /\ movie_titles' = movie_titles
            /\ build_pc' = "FileNotFoundError"
    /\ questions' = << >>
    /\ UNCHANGED << file, movie, rounds >>
    /\ UNCHANGED << max_guesses, correct_guess, spent, pc, i, x, result, answer,
                    typed, shownAnagram, guesses, final, reveal, revealText, acks,
                    summary, farewell, exitStatus >>
    /\ UNCHANGED scrambleVars

\* `for title in movie_titles: movie = Movie(title, [])`
for_title ==
    /\ build_pc = "for_title"
    /\ Len(questions) < Len(movie_titles)
    /\ movie' = [title |-> movie_titles[Len(questions) + 1], anagrams |-> {}]
    /\ rounds' = 0
    /\ build_pc' = "for_range"
    /\ UNCHANGED << file, movie_titles >>
    /\ UNCHANGED quizVars
    /\ UNCHANGED scrambleVars

\* one pass of `for _ in range(50)`: scramble every word of the title, join
\* with single spaces, upper-case, append. A word that no sample differs
\* from keeps its _scramble_word call from returning.
add_anagram ==
    /\ build_pc = "for_range"
    /\ rounds < AnagramsPerTitle
    /\ IF ScrambledWords(split(movie.title)) = {}
       THEN /\ build_pc' = "scrambling"
            /\ UNCHANGED << movie, rounds >>
       ELSE /\ \E ws \in ScrambledWords(split(movie.title)) :
                 movie' = [movie EXCEPT
                             !.anagrams = @ \cup { upper(join(<< " " >>, ws)) }]
            /\ rounds' = rounds + 1
            /\ build_pc' = "for_range"
    /\ UNCHANGED << file, movie_titles >>
    /\ UNCHANGED quizVars
    /\ UNCHANGED scrambleVars

\* `questions.append(movie)` after the 50 passes
append_movie ==
    /\ build_pc = "for_range"
    /\ rounds = AnagramsPerTitle
    /\ questions' = Append(questions, movie)
    /\ build_pc' = "for_title"
    /\ UNCHANGED << file, movie_titles, movie, rounds >>
    /\ UNCHANGED << max_guesses, correct_guess, spent, pc, i, x, result, answer,
                    typed, shownAnagram, guesses, final, reveal, revealText, acks,
                    summary, farewell, exitStatus >>
    /\ UNCHANGED scrambleVars

\* after the last title: shuffle, return, and __init__ stores max_guesses
shuffle_questions ==
    /\ build_pc = "for_title"
    /\ Len(questions) = Len(movie_titles)
    /\ questions' \in Shuffles(questions)
    /\ max_guesses' \in 0..MaxMaxGuesses
    /\ build_pc' = "built"
    /\ UNCHANGED << file, movie_titles, movie, rounds >>
    /\ UNCHANGED << correct_guess, spent, pc, i, x, result, answer,
                    typed, shownAnagram, guesses, final, reveal, revealText, acks,
                    summary, farewell, exitStatus >>
    /\ UNCHANGED scrambleVars

\* MovieQuiz(...) is called
InitBuild ==
    /\ ScrambleIdle
    /\ QuizIdle
    /\ build_pc = "load"
    /\ file \in BuildFiles
    /\ movie_titles = NoValue
    /\ movie = NoValue
    /\ rounds = 0

NextBuild ==
    \/ load_movie_titles
    \/ for_title
    \/ add_anagram
    \/ append_movie
    \/ shuffle_questions

SpecBuild == InitBuild /\ [][NextBuild]_vars

(***************************************************************************)
(* Movie                                                                   *)
(***************************************************************************)
Range(f) == { f[k] : k \in DOMAIN f }

\* Movie.title_lower
title_lower(q) == lower(questions[q].title)

\* the list comprehension without its `if x not in self._spent`
Unspent_unfiltered(q) == questions[q].anagrams

\* a _spent list that all Movie objects share
spend_shared(sp, q, a) == [k \in DOMAIN sp |-> Append(sp[k], a)]

\* self._spent.append(anagram), on the Movie's own list (default_factory=list)
spend(sp, q, a) == [sp EXCEPT ![q] = Append(@, a)]

\* [x for x in self.anagrams if x not in self._spent]
Unspent(q) == { a \in questions[q].anagrams : a \notin Range(spent[q]) }

(***************************************************************************)
(* MovieQuiz.start                                                         *)
(***************************************************************************)
sNext == << "n", "e", "x", "t" >>
sPass == << "p", "a", "s", "s" >>

\* the match statement with the title case moved to the top
match_result_title_first(subject, title) ==
    IF subject = title THEN "CORRECT"
    ELSE IF subject = sNext THEN "DEFAULT"
    ELSE IF subject = sPass THEN "PASS"
    ELSE "INCORRECT"

\* a match statement whose 'pass' case also sets correct_guess
match_result_pass_as_correct(subject, title) ==
    IF subject = sNext THEN "DEFAULT"
    ELSE IF subject = sPass THEN "CORRECT"
    ELSE IF subject = title THEN "CORRECT"
    ELSE "INCORRECT"

\* the match statement: the first case that matches decides
match_result(subject, title) ==
    IF subject = sNext THEN "DEFAULT"
    ELSE IF subject = sPass THEN "PASS"
    ELSE IF subject = title THEN "CORRECT"
    ELSE "INCORRECT"

\* range(self.max_guesses + 1)
has_guess_one_more(n) == n <= max_guesses

\* `for x in range(self.max_guesses)`: is there an iteration for x
has_guess(n) == n < max_guesses

\* the break test without GuessResult.CORRECT
breaks_on_pass_only(r) == r = "PASS"

\* the break test without GuessResult.PASS
breaks_on_correct_only(r) == r = "CORRECT"

\* `if result in [GuessResult.CORRECT, GuessResult.PASS]: break`
breaks(r) == r \in { "CORRECT", "PASS" }

\* the reveal with the exhaustion wording tied to an INCORRECT last guess
reveal_intro_incorrect_only(r) ==
    IF r # "CORRECT"
    THEN IF r = "INCORRECT" THEN "no_more_attempts" ELSE "answer_was"
    ELSE "none"

\* the reveal after the inner loop: which intro is printed, if any
reveal_intro(r) ==
    IF r # "CORRECT"
    THEN IF r # "PASS" THEN "no_more_attempts" ELSE "answer_was"
    ELSE "none"

\* the summary branch
summary_msg(correct, num_questions) ==
    IF correct = num_questions THEN "all_right"
    ELSE IF correct = 0 THEN "all_wrong"
    ELSE "not_bad"

\* start of an iteration of `for i, question in enumerate(self.questions)`
\* (i is 1-based here: question = questions[i])
for_question ==
    /\ pc = "for_question"
    /\ i <= Len(questions)
    /\ result' = "DEFAULT"
    /\ x' = 0
    /\ shownAnagram' = NoValue
    /\ typed' = NoValue
    /\ pc' = "for_guess"
    /\ UNCHANGED << questions, max_guesses, correct_guess, spent, i, answer,
                    guesses, final, reveal, revealText, acks, summary >>
    /\ UNCHANGED exitVars
    /\ UNCHANGED scrambleVars
    /\ UNCHANGED buildVars

\* top of the inner loop: print a new anagram when result is DEFAULT;
\* random.choice of an empty list raises IndexError, which nothing catches
for_guess ==
    /\ pc = "for_guess"
    /\ IF has_guess(x)
       THEN IF result = "DEFAULT"
            THEN IF Unspent(i) = {}
                 THEN /\ pc' = "IndexError"
                      /\ exitStatus' = 1
                      /\ UNCHANGED << spent, shownAnagram, final >>
                 ELSE \E a \in Unspent(i) :
                        /\ spent' = spend(spent, i, a)
                        /\ shownAnagram' = a
                        /\ pc' = "input"
                        /\ UNCHANGED << final, exitStatus >>
            ELSE /\ pc' = "input"
                 /\ UNCHANGED << spent, shownAnagram, final, exitStatus >>
       ELSE /\ pc' = "reveal"
            /\ final' = [final EXCEPT ![i] = result]
            /\ UNCHANGED << spent, shownAnagram, exitStatus >>
    /\ UNCHANGED farewell
    /\ UNCHANGED << questions, max_guesses, correct_guess, i, x, result, answer,
                    typed, guesses, reveal, revealText, acks, summary >>
    /\ UNCHANGED scrambleVars
    /\ UNCHANGED buildVars

\* ConsoleUtils.get_input at the guess prompt, a line is typed
get_input ==
    /\ pc = "input"
    /\ \E line \in Responses :
         /\ answer' = strip(line)
         /\ typed' = line
    /\ guesses' = [guesses EXCEPT ![i] = @ + 1]
    /\ pc' = "match"
    /\ UNCHANGED << questions, max_guesses, correct_guess, spent, i, x, result,
                    shownAnagram, final, reveal, revealText, acks, summary >>
    /\ UNCHANGED exitVars
    /\ UNCHANGED scrambleVars
    /\ UNCHANGED buildVars

\* the match statement and the break test after it
match_answer ==
    /\ pc = "match"
    /\ LET r == match_result(lower(answer), title_lower(i)) IN
         /\ result' = r
         /\ correct_guess' = IF r = "CORRECT"
                             THEN [correct_guess EXCEPT ![i] = TRUE]
                             ELSE correct_guess
         /\ IF breaks(r)
            THEN /\ pc' = "reveal"
                 /\ final' = [final EXCEPT ![i] = r]
                 /\ x' = x
            ELSE /\ pc' = "for_guess"
                 /\ final' = final
                 /\ x' = x + 1
    /\ UNCHANGED << questions, max_guesses, spent, i, answer,
                    typed, shownAnagram, guesses, reveal, revealText, acks, summary >>
    /\ UNCHANGED exitVars
    /\ UNCHANGED scrambleVars
    /\ UNCHANGED buildVars

\* a loop body whose "press enter" prompt sits inside the reveal branch:
\* a correct guess goes straight on to the next question
reveal_title_ack_in_reveal_branch ==
    /\ pc = "reveal"
    /\ reveal' = [reveal EXCEPT ![i] = reveal_intro(result)]
    /\ revealText' = IF result # "CORRECT"
                     THEN [revealText EXCEPT ![i] = upper(questions[i].title)]
                     ELSE revealText
    /\ IF result = "CORRECT"
       THEN /\ i' = i + 1
            /\ pc' = "for_question"
       ELSE /\ i' = i
            /\ pc' = "continue"
    /\ UNCHANGED << questions, max_guesses, correct_guess, spent, x, result, answer,
                    typed, shownAnagram, guesses, final, acks, summary >>
    /\ UNCHANGED exitVars
    /\ UNCHANGED scrambleVars
    /\ UNCHANGED buildVars

\* after the inner loop: reveal the title unless the guess was correct
reveal_title ==
    /\ pc = "reveal"
    /\ reveal' = [reveal EXCEPT ![i] = reveal_intro(result)]
    /\ revealText' = IF result # "CORRECT"
                     THEN [revealText EXCEPT ![i] = upper(questions[i].title)]
                     ELSE revealText
    /\ pc' = "continue"
    /\ UNCHANGED << questions, max_guesses, correct_guess, spent, i, x, result, answer,
                    typed, shownAnagram, guesses, final, acks, summary >>
    /\ UNCHANGED exitVars
    /\ UNCHANGED scrambleVars
    /\ UNCHANGED buildVars

\* ConsoleUtils.get_input('Press enter to continue...'), a line is typed
press_enter ==
    /\ pc = "continue"
    /\ acks' = [acks EXCEPT ![i] = @ + 1]
    /\ i' = i + 1
    /\ pc' = "for_question"
    /\ UNCHANGED << questions, max_guesses, correct_guess, spent, x, result, answer,
                    typed, shownAnagram, guesses, final, reveal, revealText, summary >>
    /\ UNCHANGED exitVars
    /\ UNCHANGED scrambleVars
    /\ UNCHANGED buildVars

\* get_input whose except branch prints the farewell but does not exit():
\* it returns None, which `answer.lower()` cannot take and which the
\* "press enter" call discards
keyboard_interrupt_no_exit ==
    /\ pc \in { "input", "continue" }
    /\ farewell' = TRUE
    /\ IF pc = "continue"
       THEN /\ i' = i + 1
            /\ pc' = "for_question"
            /\ exitStatus' = exitStatus
       ELSE /\ i' = i
            /\ pc' = "AttributeError"
            /\ exitStatus' = 1
    /\ UNCHANGED << questions, max_guesses, correct_guess, spent, x, result, answer,
                    typed, shownAnagram, guesses, final, reveal, revealText, acks, summary >>
    /\ UNCHANGED scrambleVars
    /\ UNCHANGED buildVars

\* ConsoleUtils.get_input, Ctrl+C at either prompt: farewell and exit()
keyboard_interrupt ==
    /\ pc \in { "input", "continue" }
    /\ farewell' = TRUE
    /\ exitStatus' = 0
    /\ pc' = "exited"
    /\ UNCHANGED << questions, max_guesses, correct_guess, spent, i, x, result, answer,
                    typed, shownAnagram, guesses, final, reveal, revealText, acks, summary >>
    /\ UNCHANGED scrambleVars
    /\ UNCHANGED buildVars

\* after the outer loop: the results
print_results ==
    /\ pc = "for_question"
    /\ i > Len(questions)
    /\ LET num_questions == Len(questions)
           correct == Cardinality({ q \in DOMAIN questions : correct_guess[q] })
           incorrect == num_questions - correct
       IN  summary' = [ msg |-> summary_msg(correct, num_questions),
                        correct |-> correct,
                        incorrect |-> incorrect ]
    /\ pc' = "done"
    /\ exitStatus' = 0
    /\ farewell' = farewell
    /\ UNCHANGED << questions, max_guesses, correct_guess, spent, i, x, result, answer,
                    typed, shownAnagram, guesses, final, reveal, revealText, acks >>
    /\ UNCHANGED scrambleVars
    /\ UNCHANGED buildVars

\* MovieQuiz(filename, max_guesses) built, start() entered
Init ==
    /\ ScrambleIdle
    /\ questions \in UNION { QuizzesOf(titles) : titles \in TitleFiles }
    /\ max_guesses \in 0..MaxMaxGuesses
    /\ correct_guess = [q \in DOMAIN questions |-> FALSE]
    /\ spent = [q \in DOMAIN questions |-> << >>]
    /\ pc = "for_question"
    /\ i = 1
    /\ x = 0
    /\ result = "DEFAULT"
    /\ answer = NoValue
    /\ typed = NoValue
    /\ shownAnagram = NoValue
    /\ guesses = [q \in DOMAIN questions |-> 0]
    /\ final = [q \in DOMAIN questions |-> NoValue]
    /\ reveal = [q \in DOMAIN questions |-> "none"]
    /\ revealText = [q \in DOMAIN questions |-> NoValue]
    /\ acks = [q \in DOMAIN questions |-> 0]
    /\ summary = NoValue
    /\ farewell = FALSE
    /\ exitStatus = NoValue
    /\ BuildIdle

Next ==
    \/ for_question
    \/ for_guess
    \/ get_input
    \/ match_answer
    \/ reveal_title
    \/ press_enter
    \/ keyboard_interrupt
    \/ print_results

Spec == Init /\ [][Next]_vars

TypeOK ==
    /\ pc \in { "for_question", "for_guess", "input", "match", "reveal",
                "continue", "done", "exited", "IndexError" }
    /\ result \in { "DEFAULT", "CORRECT", "INCORRECT", "PASS" }
    /\ x \in 0..max_guesses
    /\ i \in 1..(Len(questions) + 1)

(***************************************************************************)
(* Properties                                                              *)
(***************************************************************************)
\* ---- vocabulary of the properties, written without the str operations ----

\* c and d are the same letter up to case, or the same character
SameLetter(c, d) ==
    \/ c = d
    \/ \E k \in 1..Len(LowerLetters) : { c, d } = { LowerLetters[k], UpperLetters[k] }

\* s and t are equal when compared case-insensitively
SameIgnoringCase(s, t) ==
    /\ Len(s) = Len(t)
    /\ \A k \in 1..Len(s) : SameLetter(s[k], t[k])

\* the line without its leading and trailing whitespace
Trimmed(line) ==
    LET ink == { k \in 1..Len(line) : line[k] \notin Whitespace } IN
    IF ink = {} THEN << >>
    ELSE SubSeq(line, CHOOSE a \in ink : \A k \in ink : a <= k,
                      CHOOSE b \in ink : \A k \in ink : k <= b)

\* the line is the reserved word, in any letter case, after trimming
IsCommand(line, word) == SameIgnoringCase(Trimmed(line), word)

\* the line is a guess (no reserved word) that names the title
IsCorrectGuess(line, title) ==
    /\ ~IsCommand(line, sNext)
    /\ ~IsCommand(line, sPass)
    /\ SameIgnoringCase(Trimmed(line), title)

\* u is s with every lower-case letter replaced by its capital
IsUpperOf(u, s) ==
    /\ Len(u) = Len(s)
    /\ \A k \in 1..Len(s) :
         IF \E j \in 1..Len(LowerLetters) : s[k] = LowerLetters[j]
         THEN \E j \in 1..Len(LowerLetters) :
                s[k] = LowerLetters[j] /\ u[k] = UpperLetters[j]
         ELSE u[k] = s[k]

NoRepeats(l) == \A a, b \in 1..Len(l) : l[a] = l[b] => a = b

\* a guess line of question i has been read and classified, and question i
\* is still the current one
Classified ==
    /\ typed # NoValue
    /\ pc \in { "for_guess", "input", "reveal", "continue", "IndexError", "exited" }

\* the inner loop of question i has been left and its reveal step is over
LoopOver == pc = "continue"

\* C1: scramble(word) makes at most 10 permutation attempts for every word
\* (and then returns the word unchanged), so every call terminates.
C1_AtMostTenAttempts == sw_samples <= RetryBound

\* C2: random_variant() never raises, however often it is called: with no
\* unshown variant left it falls back to the full pool.
C2_NeverRaises == pc # "IndexError"

\* C3: while an unshown variant remains, random_variant() returns a pool
\* member not yet in shown and adds exactly it to shown; shown stays a
\* subset of the pool and holds no string twice.
C3_FreshVariant ==
    /\ [](\A q \in DOMAIN questions :
            /\ Range(spent[q]) \subseteq questions[q].anagrams
            /\ NoRepeats(spent[q]))
    /\ [][ ( /\ pc = "for_guess"
             /\ x < max_guesses
             /\ result = "DEFAULT"
             /\ \E a \in questions[i].anagrams : a \notin Range(spent[i]) )
           => ( /\ pc' = "input"
                /\ shownAnagram' \in questions[i].anagrams
                /\ shownAnagram' \notin Range(spent[i])
                /\ spent' = [spent EXCEPT ![i] = Append(@, shownAnagram')] ) ]_vars

C3_Witness ==
    /\ pc = "input"
    /\ Len(spent[i]) >= 2
    /\ shownAnagram = spent[i][Len(spent[i])]

\* C4: `next` and `pass`, in any letter case and after trimming, are the
\* shuffle and skip commands and never a correct guess; an entry whose
\* title is "next" or "pass" is never solved.
C4_ReservedWords ==
    /\ Classified =>
         /\ IsCommand(typed, sNext) => result = "DEFAULT"
         /\ IsCommand(typed, sPass) => result = "PASS"
    /\ \A q \in DOMAIN questions :
         ( \/ SameIgnoringCase(questions[q].title, sNext)
           \/ SameIgnoringCase(questions[q].title, sPass) )
         => ~correct_guess[q]

C4_Witness ==
    /\ pc = "for_guess"
    /\ typed # NoValue
    /\ typed # sNext
    /\ IsCommand(typed, sNext)
    /\ SameIgnoringCase(questions[i].title, sNext)
    /\ result = "DEFAULT"
    /\ ~correct_guess[i]

\* C5: a response that is no reserved command is CORRECT exactly when,
\* trimmed and lower-cased, it equals the lower-cased title, and is
\* INCORRECT otherwise.
C5_GuessComparison ==
    ( /\ Classified
      /\ ~IsCommand(typed, sNext)
      /\ ~IsCommand(typed, sPass) )
    => /\ result = "CORRECT" <=> SameIgnoringCase(Trimmed(typed), questions[i].title)
       /\ result # "CORRECT" => result = "INCORRECT"
       /\ result = "CORRECT" => correct_guess[i]

C5_Witness ==
    /\ Classified
    /\ typed = << " ", "U", "P", " " >>
    /\ questions[i].title = << "U", "p" >>
    /\ result = "CORRECT"

\* C6: at most max_guesses guess responses are read per entry, and every
\* response read so far, `next` included, has used one attempt slot.
C6_BoundedGuesses ==
    /\ \A q \in DOMAIN questions : guesses[q] <= max_guesses
    /\ pc \in { "for_guess", "input" } => x = guesses[i]

C6_Witness ==
    /\ pc = "reveal"
    /\ max_guesses = 3
    /\ guesses[i] = max_guesses
    /\ Len(spent[i]) = 2
    /\ IsCommand(typed, sNext)
    /\ final[i] = "DEFAULT"

\* C7: a correct title at any attempt sets solved, makes the entry's final
\* state CORRECT and ends the attempt loop at once: no further guess is
\* read for the entry and its title is not revealed.
C7_CorrectEndsEntry ==
    /\ ( Classified /\ IsCorrectGuess(typed, questions[i].title) )
       => /\ correct_guess[i]
          /\ result = "CORRECT"
          /\ final[i] = "CORRECT"
          /\ pc \in { "reveal", "continue", "exited" }
          /\ reveal[i] = "none"
          /\ revealText[i] = NoValue
    /\ \A q \in DOMAIN questions :
         final[q] = "CORRECT" => correct_guess[q] /\ reveal[q] = "none"

C7_Witness ==
    /\ pc = "continue"
    /\ typed # NoValue
    /\ IsCorrectGuess(typed, questions[i].title)
    /\ guesses[i] = 3
    /\ Len(spent[i]) = 2
    /\ correct_guess[i]

\* C8: `pass` at any attempt ends the entry's attempt loop at once with
\* final state PASSED: no further guess is read, solved stays false and the
\* remaining attempt slots are not used.
C8_PassEndsEntry ==
    ( Classified /\ IsCommand(typed, sPass) )
    => /\ result = "PASS"
       /\ final[i] = "PASS"
       /\ pc \in { "reveal", "continue", "exited" }
       /\ ~correct_guess[i]
       /\ guesses[i] = x + 1

C8_Witness ==
    /\ pc = "continue"
    /\ typed # NoValue
    /\ IsCommand(typed, sPass)
    /\ guesses[i] = 1
    /\ max_guesses = 3
    /\ reveal[i] = "answer_was"

\* C9: after an entry's attempt loop the title is revealed, in upper case,
\* iff the final state is not CORRECT; the exhaustion wording is used
\* exactly when all max_guesses attempts elapsed without a correct guess or
\* a pass (also when the last response was `next`), the pass wording
\* exactly when the entry ended by `pass`.
C9_Reveal ==
    /\ LoopOver =>
         LET byPass == typed # NoValue /\ IsCommand(typed, sPass)
             byCorrect == typed # NoValue /\ IsCorrectGuess(typed, questions[i].title)
         IN  /\ reveal[i] = "none" <=> byCorrect
             /\ reveal[i] = "answer_was" <=> byPass
             /\ reveal[i] = "no_more_attempts"
                  <=> ( guesses[i] = max_guesses /\ ~byPass /\ ~byCorrect )
             /\ reveal[i] # "none" => IsUpperOf(revealText[i], questions[i].title)
             /\ reveal[i] = "none" => revealText[i] = NoValue
    /\ \A q \in DOMAIN questions :
         ( q < i \/ ( q = i /\ LoopOver ) ) =>
            /\ reveal[q] = "none" <=> final[q] = "CORRECT"
            /\ reveal[q] = "answer_was" <=> final[q] = "PASS"

C9_Witness ==
    /\ LoopOver
    /\ typed # NoValue
    /\ guesses[i] = max_guesses
    /\ IsCommand(typed, sNext)
    /\ reveal[i] = "no_more_attempts"
    /\ revealText[i] = << "P", "A", "S", "S" >>

\* C10: after all entries correct_count is the number of solved entries,
\* incorrect_count is total - correct_count, and the summary is the
\* celebratory message when all are correct, the commiseration message
\* when zero are correct and the neutral message otherwise.
C10_Summary ==
    pc = "done" =>
      LET total == Len(questions)
          solved == Cardinality({ q \in DOMAIN questions : correct_guess[q] })
      IN  /\ summary.correct = solved
          /\ summary.incorrect = total - solved
          /\ solved = total => summary.msg = "all_right"
          /\ solved = 0 => summary.msg = "all_wrong"
          /\ ( solved # total /\ solved # 0 ) => summary.msg = "not_bad"

\* ---- vocabulary for the words of a phrase, written without split/join ----

\* position k starts (ends) a maximal run of non-whitespace characters
IsWordStart(s, k) == s[k] \notin Whitespace /\ ( k = 1 \/ s[k - 1] \in Whitespace )
IsWordEnd(s, k) == s[k] \notin Whitespace /\ ( k = Len(s) \/ s[k + 1] \in Whitespace )

WordCount(s) == Cardinality({ k \in 1..Len(s) : IsWordStart(s, k) })

\* the n-th whitespace-delimited word of s
WordAt(s, n) ==
    LET starts == { k \in 1..Len(s) : IsWordStart(s, k) }
        ends == { k \in 1..Len(s) : IsWordEnd(s, k) }
        a == CHOOSE k \in starts : Cardinality({ j \in starts : j < k }) = n - 1
        b == CHOOSE k \in ends : Cardinality({ j \in ends : j < k }) = n - 1
    IN  SubSeq(s, a, b)

\* v and w hold the same characters equally often, letters compared without case
SameLettersIgnoringCase(v, w) ==
    /\ Len(v) = Len(w)
    /\ \A c \in Range(v) \cup Range(w) :
         Cardinality({ k \in 1..Len(v) : SameLetter(v[k], c) })
           = Cardinality({ k \in 1..Len(w) : SameLetter(w[k], c) })

\* the words of v are separated by exactly one space, none at the ends
SingleSpaced(v) ==
    \A k \in 1..Len(v) :
        v[k] \in Whitespace =>
          /\ v[k] = " "
          /\ 1 < k /\ k < Len(v)
          /\ v[k - 1] \notin Whitespace
          /\ v[k + 1] \notin Whitespace

IsWordwiseAnagram(v, title) ==
    /\ SingleSpaced(v)
    /\ WordCount(v) = WordCount(title)
    /\ \A n \in 1..WordCount(title) :
         SameLettersIgnoringCase(WordAt(v, n), WordAt(title, n))

\* C11: building a quiz from an empty word list fails with a load error: no
\* quiz with zero entries is ever constructed.
C11_EmptyListFails == build_pc = "built" => Len(questions) > 0

\* C13: every variant of an entry's pool is, word by word, a permutation
\* (letters compared without case) of the corresponding word of the title,
\* the words in their order and joined by single spaces.
C13_WordwisePermutation ==
    /\ \A q \in DOMAIN questions :
         \A v \in questions[q].anagrams : IsWordwiseAnagram(v, questions[q].title)
    /\ build_pc \in { "for_range", "scrambling" } =>
         \A v \in movie.anagrams : IsWordwiseAnagram(v, movie.title)

C13_Witness ==
    /\ build_pc = "built"
    /\ Len(questions) = 1
    /\ questions[1].title = << "G", "o", " ", " ", "U", "p", " " >>
    /\ questions[1].anagrams = { << "O", "G", " ", "P", "U" >> }

\* what the user has been shown or asked so far, apart from the farewell
Shown == << shownAnagram, guesses, reveal, revealText, acks, summary >>

\* C12: a user interrupt at a guess prompt or at the press-enter prompt
\* ends the process at once with a farewell and exit status 0: no further
\* prompt, reveal, entry or summary follows, and no fault is raised.
C12_InterruptExits ==
    /\ [](pc \in { "input", "continue" } => ENABLED keyboard_interrupt)
    /\ [](farewell <=> pc = "exited")
    /\ [](pc = "exited" => exitStatus = 0 /\ summary = NoValue)
    /\ [][ pc # "exited" ]_vars
    /\ [][ farewell' /\ ~farewell
           => /\ pc \in { "input", "continue" }
              /\ pc' = "exited"
              /\ exitStatus' = 0
              /\ UNCHANGED << Shown, i, x, result, correct_guess, spent >> ]_vars

C12_Witness ==
    /\ pc = "exited"
    /\ farewell
    /\ exitStatus = 0
    /\ Len(questions) = 2
    /\ i = 1
    /\ guesses[1] = 2
    /\ final[1] = NoValue
    /\ reveal[1] = "none"
    /\ summary = NoValue

\* C14: an empty guess is never an error and is always INCORRECT: it uses
\* an attempt slot and never solves the entry, for every entry the builder
\* produces, one built from a blank line included.
C14_EmptyGuessIncorrect ==
    ( Classified /\ Trimmed(typed) = << >> )
    => /\ result = "INCORRECT"
       /\ ~correct_guess[i]
       /\ pc \notin { "AttributeError", "IndexError" }

\* C15: with max_guesses no larger than the 50 anagrams of an entry, every
\* display of a fresh variant succeeds, whatever the title and the
\* responses: the session never aborts for want of an unshown variant.
C15_NoAbortWithinPool ==
    max_guesses <= AnagramsPerTitle => pc # "IndexError"

\* C16: within an entry a fresh variant is drawn and displayed exactly at
\* the first attempt and at each attempt that follows a `next`; an attempt
\* after an incorrect guess draws none, a `next` on the last slot draws
\* none, so an entry draws at least 1 and at most max_guesses variants.
C16_DrawsFollowNext ==
    /\ [][ ( pc = "for_guess" /\ x < max_guesses )
           => IF x = 0 \/ IsCommand(typed, sNext)
              THEN /\ pc' = "input"
                   /\ Len(spent'[i]) = Len(spent[i]) + 1
                   /\ shownAnagram' = spent'[i][Len(spent'[i])]
                   /\ shownAnagram' \notin Range(spent[i])
              ELSE /\ pc' = "input"
                   /\ spent' = spent
                   /\ shownAnagram' = shownAnagram ]_vars
    /\ [][ ( pc # "for_guess" \/ x >= max_guesses ) => spent' = spent ]_vars
    /\ [](\A q \in DOMAIN questions :
            /\ Len(spent[q]) <= max_guesses
            /\ ( max_guesses >= 1 /\ ( q < i \/ ( q = i /\ guesses[q] >= 1 ) ) )
               => Len(spent[q]) >= 1)

\* C17: the solved flag of every entry starts false, is never reset, turns
\* true only for the entry being played and only at the step that
\* classifies a correct guess for it; when the summary is printed an entry
\* is solved exactly when its final state was CORRECT.
C17_SolvedFlag ==
    /\ [](\A q \in DOMAIN questions :
            ( q > i \/ guesses[q] = 0 ) => ~correct_guess[q])
    /\ [][ \A q \in DOMAIN questions : correct_guess[q] => correct_guess'[q] ]_vars
    /\ [][ \A q \in DOMAIN questions :
              ( ~correct_guess[q] /\ correct_guess'[q] )
              => /\ q = i
                 /\ pc = "match"
                 /\ IsCorrectGuess(typed, questions[q].title)
                 /\ result' = "CORRECT" ]_vars
    /\ [](pc = "done" =>
            \A q \in DOMAIN questions :
              correct_guess[q] <=> final[q] = "CORRECT")

\* the summary is printed over one solved and one passed entry
C17_Witness ==
    /\ pc = "done"
    /\ Len(questions) = 2
    /\ correct_guess[1] /\ final[1] = "CORRECT"
    /\ ~correct_guess[2] /\ final[2] = "PASS"
    /\ guesses[1] = 2

\* the input reads made so far: the guesses and the acknowledgements
RECURSIVE ReadsUpTo(_)
ReadsUpTo(q) == IF q = 0 THEN 0 ELSE guesses[q] + acks[q] + ReadsUpTo(q - 1)

Reads == ReadsUpTo(Len(questions))

\* a step of the session other than an interrupt
AnsweredStep ==
    \/ for_question
    \/ for_guess
    \/ get_input
    \/ match_answer
    \/ reveal_title
    \/ press_enter
    \/ print_results

\* C18: a session whose prompts are all answered and never interrupted
\* runs to its summary: short of the summary it always has a next step,
\* the summary is printed once, over entries that were each presented and
\* acknowledged once, and the session makes at most
\* len(entries) * (max_guesses + 1) input reads.
C18_Terminates ==
    /\ []( ~farewell => ( pc = "done" \/ ENABLED AnsweredStep ) )
    /\ []( Reads <= Len(questions) * (max_guesses + 1) )
    /\ []( pc = "done" =>
            /\ summary.correct + summary.incorrect = Len(questions)
            /\ ~ENABLED Next
            /\ \A q \in DOMAIN questions :
                 /\ acks[q] = 1
                 /\ final[q] # NoValue )
    /\ [][ pc' = "done" => ( pc = "for_question" /\ i = Len(questions) + 1 ) ]_vars

\* C19: the entries are played in list order, one at a time: every entry
\* before the current one is resolved and was acknowledged exactly once,
\* no later entry has been prompted for or drawn from, the session moves
\* on by one entry only at the acknowledgement read that follows the
\* entry's outcome, and guesses are read for the current entry only.
C19_OneEntryAtATime ==
    /\ []( i \in 1..(Len(questions) + 1) )
    /\ [](\A q \in DOMAIN questions :
            /\ q < i => ( acks[q] = 1 /\ final[q] # NoValue )
            /\ q = i => acks[q] = 0
            /\ q > i => /\ acks[q] = 0
                        /\ guesses[q] = 0
                        /\ spent[q] = << >>
                        /\ final[q] = NoValue )
    /\ [][ i' # i =>
              /\ i' = i + 1
              /\ pc = "continue"
              /\ final[i] \in { "CORRECT", "PASS", "INCORRECT", "DEFAULT" }
              /\ acks'[i] = acks[i] + 1
              /\ guesses' = guesses ]_vars
    /\ [][ \A q \in DOMAIN questions :
              guesses'[q] # guesses[q] => ( q = i /\ pc = "input" /\ i' = i ) ]_vars
    /\ [][ pc' = "done" => i = Len(questions) + 1 ]_vars

\* the second entry is at its guess prompt, the first one was solved and
\* acknowledged
C19_Witness ==
    /\ pc = "input"
    /\ i = 2
    /\ final[1] = "CORRECT"
    /\ acks = << 1, 0 >>
    /\ guesses = << 1, 0 >>

\* C20: no step of the session changes the list of entries (their order,
\* titles and anagram pools), and a step changes the solved flag and the
\* shown anagrams of no entry but the current one.
C20_Frame ==
    /\ [][ questions' = questions ]_vars
    /\ [][ \A q \in DOMAIN questions :
              q # i => /\ correct_guess'[q] = correct_guess[q]
                       /\ spent'[q] = spent[q] ]_vars
    /\ [][ DOMAIN correct_guess' = DOMAIN questions
           /\ DOMAIN spent' = DOMAIN questions ]_vars

\* the second entry is solved after two anagrams were shown for it, the
\* first one keeps its single shown anagram and stays unsolved
C20_Witness ==
    /\ i = 2
    /\ pc = "reveal"
    /\ correct_guess = << FALSE, TRUE >>
    /\ Len(spent[1]) = 1
    /\ Len(spent[2]) = 2
    /\ final[1] = "PASS"

====
